---- MODULE Spec2Model ----
(***************************************************************************)
(* Model of Laboratorio_1/env: the DataValidator cleaning pipeline, the    *)
(* DataPersister (dynamic table creation + append) and the per-file loop   *)
(* of main().                                                              *)
(*                                                                         *)
(* A DataFrame is a sequence of rows; a row maps each column name to a     *)
(* cell.  A cell is a record [t, n, s]: t is the runtime kind of the       *)
(* value, n its numeric payload in tenths (5 is 50, 5.5 is 55), s its      *)
(* text.  All missing values (None, NaN, NaT, pd.NA) are the one cell Null.*)
(* Each row also carries idx, its label in the frame's index, which the    *)
(* row keeps through drop_duplicates and dropna.                           *)
(***************************************************************************)
EXTENDS Integers, Sequences, FiniteSets, TLC

\* ---------------------------------------------------------------- bounds
MaxRows == 2

\* ----------------------------------------------------------------- cells
Null == [t |-> "null", n |-> 0, s |-> ""]
StrCell(x) == [t |-> "str", n |-> 0, s |-> x]
IntCell(k) == [t |-> "int", n |-> k, s |-> ""]
FloatCell(k) == [t |-> "float", n |-> k, s |-> ""]
TsCell(x) == [t |-> "ts", n |-> 0, s |-> x]
BoolCell(b) == [t |-> "bool", n |-> IF b THEN 10 ELSE 0, s |-> ""]

\* pd.isna
IsNull(c) == c.t = "null"

\* a whole number: an integer, or a float without a fractional part
IsWhole(c) == c.t \in {"int", "float"} /\ c.n % 10 = 0

\* the columns of the datasets the validator is run on, and the values a
\* reader can put in each
Columns == {"age", "name"}
AgeValues == {Null, StrCell("5"), StrCell("x"), StrCell("5.5")}
NameValues == {Null, StrCell("a"), StrCell("2024-01-01")}
Rows == {[age |-> a, name |-> m] : a \in AgeValues, m \in NameValues}

SeqsUpTo(S, k) == UNION {[1..m -> S] : m \in 0..k}

\* a frame as a reader returns it: the index is 1..n
WithRangeIndex(rs) ==
    [i \in DOMAIN rs |-> [idx |-> i, age |-> rs[i].age, name |-> rs[i].name]]

DataFrames == {WithRangeIndex(rs) : rs \in SeqsUpTo(Rows, MaxRows)}

\* the values of a row, without its index label
Data(r) == [c \in Columns |-> r[c]]

\* the text of a number literal -> its value in tenths; 0 - 1 when the text
\* is not a number (the parser of pd.to_numeric)
ParseNumber(s) ==
    CASE s = "5" -> 50
      [] s = "7" -> 70
      [] s = "5.5" -> 55
      [] OTHER -> 0 - 1

\* the text of a date -> TRUE when pd.to_datetime can parse it
ParsesAsDate(s) == s \in {"2024-01-01"}

\* str(value)
Repr(c) ==
    CASE c.t = "str" -> c.s
      [] c.t = "ts" -> c.s
      [] c.t = "int" /\ c.n = 50 -> "5"
      [] c.t = "int" /\ c.n = 70 -> "7"
      [] c.t = "float" /\ c.n = 50 -> "5.0"
      [] c.t = "float" /\ c.n = 55 -> "5.5"
      [] c.t = "float" /\ c.n = 70 -> "7.0"
      [] c.t = "bool" -> IF c.n = 0 THEN "False" ELSE "True"
      [] c.t = "null" -> "nan"
      [] OTHER -> "?"

VARIABLES df, required_fields, data_types, out, op, filename, strKeepsNull,
          pdf, tables, metadata, lastCall,
          files, pos, pc, processed_successfully, processed_failed, log

\* the validator's run; the persister and its storage
varsV == <<df, required_fields, data_types, out, op, filename, strKeepsNull>>
varsP == <<pdf, tables, metadata, lastCall>>

varsM == <<files, pos, pc, processed_successfully, processed_failed, log>>

vars == <<varsV, varsP, varsM>>

\* ------------------------------------------------------- DataFrame helpers
RECURSIVE SelectRows(_, _)
\* the rows of d, in order, whose index satisfies keep
SelectRows(d, keep) ==
    IF d = <<>> THEN <<>>
    ELSE LET n == Len(d)
             front == SelectRows(SubSeq(d, 1, n - 1), keep \ {n})
         IN IF n \in keep THEN Append(front, d[n]) ELSE front

\* mutant: the index label is compared with the values, so no row repeats
remove_duplicates_WithIndex(d) ==
    SelectRows(d, {i \in 1..Len(d) : \A j \in 1..(i - 1) : d[j] # d[i]})

\* df.drop_duplicates(): keep='first', all columns, NaN equal to NaN
remove_duplicates(d) ==
    SelectRows(d, {i \in 1..Len(d) : \A j \in 1..(i - 1) : Data(d[j]) # Data(d[i])})

\* df.dropna(subset=cols)
dropna(d, cols) ==
    SelectRows(d, {i \in 1..Len(d) : \A c \in cols : ~IsNull(d[i][c])})

\* df[col] = vals
SetColumn(d, col, vals) ==
    [i \in 1..Len(d) |-> [d[i] EXCEPT ![col] = vals[i]]]

Column(d, col) == [i \in 1..Len(d) |-> d[i][col]]

\* ------------------------------------------------------------ type coercion
TypeNames == {"int", "float", "datetime", "str", "bool"}

\* the number a value stands for in tenths, 0 - 1 when it stands for none
NumOf(c) ==
    CASE c.t = "str" -> ParseNumber(c.s)
      [] c.t \in {"int", "float", "bool"} -> c.n
      [] OTHER -> 0 - 1

\* pd.to_numeric(col, errors='coerce'): int64 when every value parses to an
\* integer, else float64 with NaN for what does not parse
to_numeric(vals) ==
    LET nums == [i \in DOMAIN vals |-> NumOf(vals[i])]
        allInt == \A i \in DOMAIN vals :
                     nums[i] >= 0 /\ nums[i] % 10 = 0 /\ vals[i].t # "float"
    IN IF allInt
       THEN [i \in DOMAIN vals |-> IntCell(nums[i])]
       ELSE [i \in DOMAIN vals |->
                IF nums[i] < 0 THEN Null ELSE FloatCell(nums[i])]

\* .astype(pd.Int64Dtype()) raises TypeError ("cannot safely cast
\* non-equivalent float64 to int64") when a value has a fractional part
AstypeInt64Raises(vals) ==
    \E i \in DOMAIN vals : ~IsNull(vals[i]) /\ ~IsWhole(vals[i])

astype_Int64(vals) ==
    [i \in DOMAIN vals |-> IF IsNull(vals[i]) THEN Null ELSE IntCell(vals[i].n)]

\* pd.to_datetime(col, errors='coerce')
to_datetime(vals) ==
    [i \in DOMAIN vals |->
        CASE vals[i].t = "ts" -> vals[i]
          [] vals[i].t = "str" /\ ParsesAsDate(vals[i].s) -> TsCell(vals[i].s)
          [] OTHER -> Null]

\* .astype(str): a missing value becomes the text "nan" (pandas < 3) or
\* stays missing (pandas >= 3, keepNull)
astype_str(vals, keepNull) ==
    [i \in DOMAIN vals |->
        IF IsNull(vals[i]) /\ keepNull THEN Null ELSE StrCell(Repr(vals[i]))]

\* bool(value): NaN is truthy, the empty text and zero are falsy
Truthy(c) ==
    CASE c.t = "null" -> TRUE
      [] c.t = "str" -> c.s # ""
      [] c.t \in {"int", "float", "bool"} -> c.n # 0
      [] OTHER -> TRUE

\* .astype(bool)
astype_bool(vals) == [i \in DOMAIN vals |-> BoolCell(Truthy(vals[i]))]

\* the body of the try block for one column; when the conversion raises, the
\* except clause only prints and the column keeps its values
CoerceColumn(vals, expected_type, keepNull) ==
    CASE expected_type = "int" ->
            IF AstypeInt64Raises(to_numeric(vals)) THEN vals
            ELSE astype_Int64(to_numeric(vals))
      [] expected_type = "float" -> to_numeric(vals)
      [] expected_type = "datetime" -> to_datetime(vals)
      [] expected_type = "str" -> astype_str(vals, keepNull)
      [] expected_type = "bool" -> astype_bool(vals)
      [] OTHER -> vals

RECURSIVE CoerceColumns(_, _, _, _)
\* the loop over data_types.items(); columns absent from the frame are skipped
CoerceColumns(d, types, todo, keepNull) ==
    IF todo = {} THEN d
    ELSE LET col == CHOOSE c \in todo : TRUE
             d2 == IF col \in Columns
                   THEN SetColumn(d, col,
                           CoerceColumn(Column(d, col), types[col], keepNull))
                   ELSE d
         IN CoerceColumns(d2, types, todo \ {col}, keepNull)

\* stage 2: drop the rows with a null in a required field present in the frame
DropRequiredNulls(d, required) ==
    IF required # {}
    THEN LET actual_required_fields == required \cap Columns
         IN IF actual_required_fields # {}
            THEN dropna(d, actual_required_fields)
            ELSE d
    ELSE d

\* mutant: no null removal after the coercion
DropCoercionNulls_Skip(d, types) == d

\* stage 4: drop the rows with a null in a typed column present in the frame
DropCoercionNulls(d, types) ==
    LET columns_to_check == DOMAIN types \cap Columns
    IN IF columns_to_check # {} THEN dropna(d, columns_to_check) ELSE d

\* mutant: the pipeline ends after the coercion, without stage 4
validate_and_clean_NoFinalDrop(d, required, types, keepNull) ==
    LET df_dedup == remove_duplicates(d)
        df_required == DropRequiredNulls(df_dedup, required)
    IN CoerceColumns(df_required, types, DOMAIN types, keepNull)

\* DataValidator(required, types).validate_and_clean(d)
validate_and_clean(d, required, types, keepNull) ==
    LET df_dedup == remove_duplicates(d)
        df_required == DropRequiredNulls(df_dedup, required)
        df_coerced == CoerceColumns(df_required, types, DOMAIN types, keepNull)
    IN DropCoercionNulls(df_coerced, types)

\* ------------------------------------------------- main(): configuration
\* a file name is its stem and its extension, as os.path.splitext cuts it
Stems == {"users", "Users", "products", "ventas"}
Exts == {".csv", ".json", ".pdf"}
FileNames == [stem : Stems, ext : Exts]

\* str.lower()
Lower(s) ==
    CASE s = "Users" -> "users"
      [] s = ".CSV" -> ".csv"
      [] OTHER -> s

get_file_type(f) == Lower(f.ext)

get_table_name(f) == Lower(f.stem)

VALIDATION_CONFIG ==
    [users |->
        [required_fields |-> {"id", "name", "email"},
         data_types |-> [id |-> "int", name |-> "str", email |-> "str",
                         age |-> "int", join_date |-> "datetime"]],
     products |->
        [required_fields |-> {"product_id", "name", "price"},
         data_types |-> [product_id |-> "str", name |-> "str",
                         price |-> "float", stock |-> "int"]],
     orders |->
        [required_fields |-> {"order_id", "user_id", "product_id",
                              "quantity", "order_date"},
         data_types |-> [order_id |-> "str", user_id |-> "int",
                         product_id |-> "str", quantity |-> "int",
                         order_date |-> "datetime"]],
     notes |->
        [required_fields |-> {"content"},
         data_types |-> [content |-> "str"]]]

NoTypes == [c \in {} |-> "str"]

\* mutant: a file without an entry is validated as users is
validation_settings_DefaultUsers(f) ==
    LET file_base_name == Lower(f.stem)
    IN IF file_base_name \in DOMAIN VALIDATION_CONFIG
       THEN VALIDATION_CONFIG[file_base_name]
       ELSE VALIDATION_CONFIG["users"]

\* VALIDATION_CONFIG.get(file_base_name, {}) and the two .get() on the result
validation_settings(f) ==
    LET file_base_name == Lower(f.stem)
    IN IF file_base_name \in DOMAIN VALIDATION_CONFIG
       THEN VALIDATION_CONFIG[file_base_name]
       ELSE [required_fields |-> {}, data_types |-> NoTypes]

\* ------------------------------------------- the configurations tried directly
ConfigColumns == {"age", "name", "id"}

TypeOptions(c) ==
    CASE c = "age" -> {"int", "float", "str", "bool"}
      [] c = "name" -> {"str", "datetime"}
      [] OTHER -> {"int"}

RequiredChoices == SUBSET ConfigColumns

DataTypesChoices ==
    UNION {{t \in [D -> TypeNames] : \A c \in D : t[c] \in TypeOptions(c)} :
              D \in SUBSET ConfigColumns}

NoFile == [stem |-> "", ext |-> ""]

\* ------------------------------------------- the persister when not in use
NoTables == [n \in {} |-> [cols |-> NoTypes, nrows |-> 0]]
NoMetadata == [n \in {} |-> NoTypes]
NoFrame == [dtypes |-> NoTypes, rows |-> <<>>]
NoCall == [fn |-> "none", name |-> "", raised |-> FALSE, dtypes |-> NoTypes]

\* main() is not running
IdleM ==
    /\ files = <<>>
    /\ pos = 0
    /\ pc = "idle"
    /\ processed_successfully = <<>>
    /\ processed_failed = <<>>
    /\ log = <<>>

\* no validation is in hand
IdleV ==
    /\ df = <<>>
    /\ strKeepsNull = FALSE
    /\ required_fields = {}
    /\ data_types = NoTypes
    /\ out = <<>>
    /\ op = "idle"
    /\ filename = NoFile

\* the persister is not in use
IdleP ==
    /\ pdf = NoFrame
    /\ tables = NoTables
    /\ metadata = NoMetadata
    /\ lastCall = NoCall

\* ------------------------------------------------------- validator: actions
InitV ==
    /\ df \in DataFrames
    /\ strKeepsNull \in BOOLEAN
    /\ required_fields = {}
    /\ data_types = NoTypes
    /\ out = <<>>
    /\ op = "init"
    /\ filename = NoFile
    /\ IdleP
    /\ IdleM

\* DataValidator(required, types).validate_and_clean(df)
ValidateAndClean ==
    /\ op = "init"
    /\ \E required \in RequiredChoices, types \in DataTypesChoices :
          /\ required_fields' = required
          /\ data_types' = types
          /\ out' = validate_and_clean(df, required, types, strKeepsNull)
    /\ op' = "validate"
    /\ UNCHANGED <<df, filename, strKeepsNull, varsP, varsM>>

\* main(): the validation of one file, configured from its name
MainValidate ==
    /\ op = "init"
    /\ df # <<>>
    /\ \E f \in FileNames :
          LET settings == validation_settings(f)
          IN /\ filename' = f
             /\ required_fields' = settings.required_fields
             /\ data_types' = settings.data_types
             /\ out' = validate_and_clean(df, settings.required_fields,
                                          settings.data_types, strKeepsNull)
    /\ op' = "main"
    /\ UNCHANGED <<df, strKeepsNull, varsP, varsM>>

\* DataValidator.remove_duplicates, on df and then on its own result
RemoveDuplicates ==
    /\ op \in {"init", "dedup"}
    /\ out' = remove_duplicates(IF op = "init" THEN df ELSE out)
    /\ op' = IF op = "init" THEN "dedup" ELSE "dedup2"
    /\ UNCHANGED <<df, required_fields, data_types, filename, strKeepsNull, varsP, varsM>>

NextV == ValidateAndClean \/ MainValidate \/ RemoveDuplicates

SpecV == InitV /\ [][NextV]_vars

\* ------------------------------------------------------ validator: claims
Validated == op \in {"validate", "main"}

\* the columns of the frame that the configuration types
TypedColumns == DOMAIN data_types \cap Columns

\* r is what is left of input row j
FromRow(r, j) == r.idx = j

\* C1: every row returned by validate_and_clean is non-null in every
\* required field and in every expected_types column that the dataset has.
C1_SurvivorsNonNull ==
    Validated =>
        \A i \in DOMAIN out :
            \A c \in (required_fields \cup DOMAIN data_types) \cap Columns :
                ~IsNull(out[i][c])

\* a row without its required name is dropped, the other is kept with age 5
C1_Witness ==
    /\ op = "validate"
    /\ "name" \in required_fields
    /\ "age" \in DOMAIN data_types
    /\ data_types["age"] = "int"
    /\ Len(df) = 2
    /\ IsNull(df[1].name)
    /\ df[2].age = StrCell("5")
    /\ Len(out) = 1
    /\ out[1].idx = 2
    /\ out[1].age = IntCell(50)

\* a value that is missing, not a number, or a number with a fractional part
NotWholeNumber(c) == NumOf(c) < 0 \/ NumOf(c) % 10 # 0

\* C2: with age expected to be an integer, every surviving row holds a whole
\* number in age, and every row whose age was null, non-numeric or
\* fractional is dropped, whatever else the column contains.
C2_IntegerColumnClean ==
    (Validated /\ "age" \in DOMAIN data_types /\ data_types["age"] = "int") =>
        /\ \A i \in DOMAIN out : out[i].age.t = "int" /\ IsWhole(out[i].age)
        /\ \A j \in DOMAIN df :
              NotWholeNumber(df[j].age) =>
                  \A i \in DOMAIN out : ~FromRow(out[i], j)

\* the value is present but the conversion to the type has no result for it
FailsCoercion(c, type) ==
    /\ ~IsNull(c)
    /\ CASE type = "int" -> NotWholeNumber(c)
         [] type = "float" -> NumOf(c) < 0
         [] type = "datetime" -> ~(c.t = "ts" \/ (c.t = "str" /\ ParsesAsDate(c.s)))
         [] OTHER -> FALSE

\* C3: for every typed column of the dataset, whatever its type, no row that
\* was null in that column, and no row whose value failed coercion, survives.
C3_TypedNullsRemoved ==
    Validated =>
        \A c \in TypedColumns :
            \A j \in DOMAIN df :
                (IsNull(df[j][c]) \/ FailsCoercion(df[j][c], data_types[c])) =>
                    \A i \in DOMAIN out : ~FromRow(out[i], j)

\* o is d without the rows whose values repeat those of an earlier row:
\* the rows of o are rows of d, unchanged and in the order of d; no two have
\* the same values; every row of d has its values in o; each is the first
\* row of d with its values
IsDedupOf(o, d) ==
    /\ \A k \in DOMAIN o : o[k].idx \in DOMAIN d /\ o[k] = d[o[k].idx]
    /\ \A k, l \in DOMAIN o : k < l => o[k].idx < o[l].idx
    /\ \A k, l \in DOMAIN o : k # l => Data(o[k]) # Data(o[l])
    /\ \A j \in DOMAIN d : \E k \in DOMAIN o : Data(o[k]) = Data(d[j])
    /\ \A k \in DOMAIN o : \A j \in 1..(o[k].idx - 1) : Data(d[j]) # Data(o[k])

\* C9: remove_duplicates removes exactly the rows identical to an earlier
\* row, keeps the first occurrence and the order; applying it to its own
\* result changes nothing.
C9_DedupFirstOrderIdempotent ==
    op \in {"dedup", "dedup2"} => IsDedupOf(out, df)

\* two rows with the same values, deduplicated twice
C9_Witness ==
    /\ op = "dedup2"
    /\ Len(df) = 2
    /\ Len(out) = 1

\* C10: a file whose table name has no configuration entry is validated with
\* no required fields and no expected types, and the result is the
\* deduplicated input: no row dropped for a null or a type, no value changed.
C10_NoConfigOnlyDedup ==
    (op = "main" /\ get_table_name(filename) \notin DOMAIN VALIDATION_CONFIG) =>
        /\ required_fields = {}
        /\ data_types = NoTypes
        /\ IsDedupOf(out, df)

\* ventas has no entry: nulls and a non-numeric age are kept
C10_Witness ==
    /\ op = "main"
    /\ filename.stem = "ventas"
    /\ Len(df) = 2
    /\ IsNull(df[1].name) /\ df[1].age = StrCell("x")
    /\ IsNull(df[2].age)
    /\ Len(out) = 2

\* ---------------------------------------------------------------- persister
\* A frame handed to the persister: dtypes maps each column to its pandas
\* dtype, rows are the rows.  The storage: tables maps each existing table to
\* its columns (name -> storage type) and its number of rows; metadata is the
\* persister's MetaData, the table definitions made with Table(...).
PColumns == {"id", "v"}
Dtypes == {"int64", "Int64", "float64", "bool", "datetime64", "object"}
MaxFrameRows == 2
MaxTableRows == 3

\* the values a column of a dtype can hold
DtypeHolds(dtype, c) ==
    CASE dtype = "int64" -> c.t = "int"
      [] dtype = "Int64" -> c.t \in {"int", "null"}
      [] dtype = "float64" -> c.t \in {"float", "null"}
      [] dtype = "bool" -> c.t = "bool"
      [] dtype = "datetime64" -> c.t \in {"ts", "null"}
      [] OTHER -> TRUE

\* inspect(engine).has_table(name)
has_table(tbls, name) == name \in DOMAIN tbls

\* mutant: the nullable integer dtype is not taken for an integer
get_sqlalchemy_type_NoNullableInt(dtype) ==
    IF dtype = "int64" THEN "Integer"
    ELSE IF dtype = "float64" THEN "Float"
    ELSE IF dtype = "datetime64" THEN "DateTime"
    ELSE IF dtype = "bool" THEN "Boolean"
    ELSE "String"

\* DataPersister._get_sqlalchemy_type
get_sqlalchemy_type(dtype) ==
    IF dtype \in {"int64", "Int64"} THEN "Integer"
    ELSE IF dtype = "float64" THEN "Float"
    ELSE IF dtype = "datetime64" THEN "DateTime"
    ELSE IF dtype = "bool" THEN "Boolean"
    ELSE "String"

\* the Column list built from df.dtypes.items()
InferColumns(d) == [c \in DOMAIN d.dtypes |-> get_sqlalchemy_type(d.dtypes[c])]

\* the column types pandas picks when to_sql has to create the table itself
PandasColumns(d) ==
    [c \in DOMAIN d.dtypes |->
        CASE d.dtypes[c] \in {"int64", "Int64"} -> "BigInteger"
          [] d.dtypes[c] = "float64" -> "Float"
          [] d.dtypes[c] = "datetime64" -> "DateTime"
          [] d.dtypes[c] = "bool" -> "Boolean"
          [] OTHER -> "Text"]

\* metadata.create_all(engine): every defined table the storage lacks is created
create_all(tbls, meta) ==
    [n \in DOMAIN tbls \cup DOMAIN meta |->
        IF n \in DOMAIN tbls THEN tbls[n] ELSE [cols |-> meta[n], nrows |-> 0]]

\* create_table_from_dataframe(d, name); storageOk: the storage accepts the
\* CREATE TABLE.  Table(name, metadata, ...) raises InvalidRequestError when
\* the MetaData already defines name.  rejected: the storage refused.
create_table_from_dataframe(d, name, tbls, meta, storageOk) ==
    IF has_table(tbls, name)
    THEN [raised |-> FALSE, rejected |-> FALSE, tables |-> tbls,
          metadata |-> meta]
    ELSE IF name \in DOMAIN meta
    THEN [raised |-> TRUE, rejected |-> FALSE, tables |-> tbls,
          metadata |-> meta]
    ELSE LET meta2 == [n \in DOMAIN meta \cup {name} |->
                          IF n = name THEN InferColumns(d) ELSE meta[n]]
         IN IF storageOk
            THEN [raised |-> FALSE, rejected |-> FALSE,
                  tables |-> create_all(tbls, meta2), metadata |-> meta2]
            ELSE [raised |-> TRUE, rejected |-> TRUE, tables |-> tbls,
                  metadata |-> meta2]

\* mutant: if_exists='replace', the table is dropped and made again
save_dataframe_to_db_Replace(d, name, tbls, storageOk) ==
    IF ~storageOk
    THEN [raised |-> TRUE, attempts |-> 1, rejected |-> TRUE, tables |-> tbls]
    ELSE [raised |-> FALSE, attempts |-> 1, rejected |-> FALSE,
          tables |-> [n \in DOMAIN tbls \cup {name} |->
                        IF n = name
                        THEN [cols |-> PandasColumns(d), nrows |-> Len(d.rows)]
                        ELSE tbls[n]]]

\* mutant: the error is printed and not raised again
save_dataframe_to_db_Swallow(d, name, tbls, storageOk) ==
    IF storageOk /\ (has_table(tbls, name) =>
                        DOMAIN d.dtypes \subseteq DOMAIN tbls[name].cols)
    THEN [raised |-> FALSE, attempts |-> 1, rejected |-> FALSE,
          tables |-> [n \in DOMAIN tbls \cup {name} |->
                        IF n # name THEN tbls[n]
                        ELSE IF has_table(tbls, name)
                        THEN [tbls[n] EXCEPT !.nrows = @ + Len(d.rows)]
                        ELSE [cols |-> PandasColumns(d), nrows |-> Len(d.rows)]]]
    ELSE [raised |-> FALSE, attempts |-> 1, rejected |-> TRUE, tables |-> tbls]

\* save_dataframe_to_db(d, name): df.to_sql(name, engine, if_exists='append',
\* index=False), one call; the error is printed and raised again.
\* attempts: the number of to_sql calls made; rejected: the storage refused
\* the write (storageOk false, or a column that the table does not have)
save_dataframe_to_db(d, name, tbls, storageOk) ==
    IF ~storageOk
    THEN [raised |-> TRUE, attempts |-> 1, rejected |-> TRUE, tables |-> tbls]
    ELSE IF ~has_table(tbls, name)
    THEN [raised |-> FALSE, attempts |-> 1, rejected |-> FALSE,
          tables |-> [n \in DOMAIN tbls \cup {name} |->
                        IF n = name
                        THEN [cols |-> PandasColumns(d), nrows |-> Len(d.rows)]
                        ELSE tbls[n]]]
    ELSE IF DOMAIN d.dtypes \subseteq DOMAIN tbls[name].cols
    THEN [raised |-> FALSE, attempts |-> 1, rejected |-> FALSE,
          tables |-> [tbls EXCEPT ![name].nrows = @ + Len(d.rows)]]
    ELSE [raised |-> TRUE, attempts |-> 1, rejected |-> TRUE, tables |-> tbls]

\* ------------------------------------------------- persister: schema inference
PCells == {Null, IntCell(50), FloatCell(50), FloatCell(55), StrCell("a"),
           BoolCell(TRUE), TsCell("2024-01-01")}

\* the frames with n rows over the columns cs
FramesOver(cs, n) ==
    {[dtypes |-> dt, rows |-> rs] :
        dt \in [cs -> Dtypes], rs \in [1..n -> [cs -> PCells]]}

WellTyped(d) ==
    \A c \in DOMAIN d.dtypes :
        \A i \in DOMAIN d.rows : DtypeHolds(d.dtypes[c], d.rows[i][c])

\* the frames whose schema is inferred: a column v of any dtype and values
TypedFrames ==
    {d \in UNION {FramesOver({"v"}, n) : n \in 1..MaxFrameRows} : WellTyped(d)}

InitT ==
    /\ pdf \in TypedFrames
    /\ tables = NoTables
    /\ metadata = NoMetadata
    /\ lastCall = NoCall
    /\ IdleV
    /\ IdleM

\* a call of create_table_from_dataframe(d, name) on the persister
CreateTable(d, name, storageOk) ==
    LET r == create_table_from_dataframe(d, name, tables, metadata, storageOk)
    IN /\ tables' = r.tables
       /\ metadata' = r.metadata
       /\ lastCall' = [fn |-> "create", name |-> name, raised |-> r.raised,
                       dtypes |-> d.dtypes]

\* a call of save_dataframe_to_db(d, name) on the persister
SaveDataframe(d, name, storageOk) ==
    LET r == save_dataframe_to_db(d, name, tables, storageOk)
    IN /\ tables' = r.tables
       /\ metadata' = metadata
       /\ lastCall' = [fn |-> "save", name |-> name, raised |-> r.raised,
                       dtypes |-> d.dtypes]

\* the table for the drawn frame is created
CreateFromFrame ==
    /\ lastCall = NoCall
    /\ \E storageOk \in BOOLEAN : CreateTable(pdf, "t", storageOk)
    /\ UNCHANGED <<pdf, varsV, varsM>>

NextT == CreateFromFrame

SpecT == InitT /\ [][NextT]_vars

\* ------------------------------------------------ persister: sequences of calls
TableNames == {"users", "products"}

\* a value of each dtype
Canon(dtype) ==
    CASE dtype = "int64" -> IntCell(50)
      [] dtype = "float64" -> FloatCell(55)
      [] OTHER -> StrCell("a")

\* the one-row frame with the dtypes dt
FrameOf(dt) == [dtypes |-> dt, rows |-> <<[c \in DOMAIN dt |-> Canon(dt[c])]>>]

\* cleaned frames handed to the persister: two with the same columns and
\* different dtypes, one with fewer columns, one with another column
FramesP ==
    {FrameOf([id |-> "int64", v |-> "object"]),
     FrameOf([id |-> "object", v |-> "float64"]),
     FrameOf([id |-> "int64"]),
     FrameOf([id |-> "int64", w |-> "object"])}

InitP ==
    /\ IdleP
    /\ IdleV
    /\ IdleM

CreateTableCall ==
    /\ \E d \in FramesP, name \in TableNames, storageOk \in BOOLEAN :
          CreateTable(d, name, storageOk)
    /\ UNCHANGED <<pdf, varsV, varsM>>

SaveDataframeCall ==
    /\ \E d \in FramesP, name \in TableNames, storageOk \in BOOLEAN :
          /\ (name \in DOMAIN tables =>
                 tables[name].nrows + Len(d.rows) <= MaxTableRows)
          /\ SaveDataframe(d, name, storageOk)
    /\ UNCHANGED <<pdf, varsV, varsM>>

\* DataPersister(engine): a new persister, with its own empty MetaData, on the
\* same storage
NewPersister ==
    /\ metadata # NoMetadata
    /\ metadata' = NoMetadata
    /\ lastCall' = [NoCall EXCEPT !.fn = "new"]
    /\ UNCHANGED <<pdf, tables, varsV, varsM>>

NextP == CreateTableCall \/ SaveDataframeCall \/ NewPersister

SpecP == InitP /\ [][NextP]_vars

\* -------------------------------------------------------------------- main()
MaxFiles == 2

\* the extensions that FILE_READERS has a reader for
FILE_READERS == {".csv", ".xlsx", ".json", ".txt"}

\* the files that the directory can hold
MainFiles ==
    {[stem |-> "users", ext |-> ".csv"], [stem |-> "users", ext |-> ".json"],
     [stem |-> "Users", ext |-> ".csv"], [stem |-> "products", ext |-> ".csv"],
     [stem |-> "ventas", ext |-> ".pdf"]}

\* os.listdir: each file name once
FileLists ==
    {fs \in SeqsUpTo(MainFiles, MaxFiles) :
        \A k, l \in DOMAIN fs : k # l => fs[k] # fs[l]}

\* what reading the file does, and what validate_and_clean does with it
ReadOutcomes == {"raises", "empty", "data"}
CleanOutcomes == {"raises", "empty", "data"}

LogEntry(f, outcome, creates, writes, rejected) ==
    [file |-> f, table |-> get_table_name(f), outcome |-> outcome,
     creates |-> creates, writes |-> writes, rejected |-> rejected]

\* mutant: the file is added to processed_successfully before it is read
ProcessOne_AlwaysOk(f, read, clean, d, createOk, saveOk, tbls, meta) ==
    [ok |-> TRUE, tables |-> tbls, metadata |-> meta,
     entry |-> LogEntry(f, IF get_file_type(f) \notin FILE_READERS
                           THEN "unsupported" ELSE "read_error", 0, 0, FALSE)]

\* one pass of the loop body for the file f: read is what read_file does,
\* clean what validate_and_clean does and d the cleaned frame, createOk and
\* saveOk whether the storage accepts the CREATE TABLE and the INSERT.
\* ok: the file goes to processed_successfully, else to processed_failed.
ProcessOne(f, read, clean, d, createOk, saveOk, tbls, meta) ==
    LET table_name == get_table_name(f)
        untouched(outcome) ==
            [ok |-> FALSE, tables |-> tbls, metadata |-> meta,
             entry |-> LogEntry(f, outcome, 0, 0, FALSE)]
    IN IF get_file_type(f) \notin FILE_READERS THEN untouched("unsupported")
       ELSE IF read = "raises" THEN untouched("read_error")
       ELSE IF read = "empty" THEN untouched("empty_read")
       ELSE IF clean = "raises" THEN untouched("validate_error")
       ELSE IF clean = "empty" THEN untouched("empty_clean")
       ELSE LET c == create_table_from_dataframe(d, table_name, tbls, meta,
                                                 createOk)
            IN IF c.raised
               THEN [ok |-> FALSE, tables |-> c.tables, metadata |-> c.metadata,
                     entry |-> LogEntry(f, "create_error", 1, 0, c.rejected)]
               ELSE LET w == save_dataframe_to_db(d, table_name, c.tables,
                                                  saveOk)
                    IN [ok |-> ~w.raised, tables |-> w.tables,
                        metadata |-> c.metadata,
                        entry |-> LogEntry(f,
                                     IF w.raised THEN "save_error" ELSE "success",
                                     1, w.attempts, w.rejected)]

InitM ==
    /\ files \in FileLists
    /\ pos = 0
    /\ pc = "start"
    /\ processed_successfully = <<>>
    /\ processed_failed = <<>>
    /\ log = <<>>
    /\ IdleP
    /\ IdleV

\* main() up to the loop: a new persister, the directory listing, the early
\* return when there is no file, the two empty lists
Start ==
    /\ pc = "start"
    /\ pc' = IF files = <<>> THEN "done" ELSE "loop"
    /\ pos' = 1
    /\ UNCHANGED <<files, processed_successfully, processed_failed, log,
                   varsP, varsV>>

\* the loop body for the next file
ProcessFile ==
    /\ pc = "loop"
    /\ pos <= Len(files)
    /\ \E read \in ReadOutcomes, clean \in CleanOutcomes, d \in FramesP,
          createOk \in BOOLEAN, saveOk \in BOOLEAN :
          LET r == ProcessOne(files[pos], read, clean, d, createOk, saveOk,
                              tables, metadata)
          IN /\ tables' = r.tables
             /\ metadata' = r.metadata
             /\ log' = Append(log, r.entry)
             /\ processed_successfully' =
                   IF r.ok THEN Append(processed_successfully, files[pos])
                   ELSE processed_successfully
             /\ processed_failed' =
                   IF r.ok THEN processed_failed
                   ELSE Append(processed_failed, files[pos])
    /\ pos' = pos + 1
    /\ UNCHANGED <<files, pc, pdf, lastCall, varsV>>

\* the end of the loop: the summary is printed and main() returns
Finish ==
    /\ pc = "loop"
    /\ pos > Len(files)
    /\ pc' = "done"
    /\ UNCHANGED <<files, pos, processed_successfully, processed_failed, log,
                   varsP, varsV>>

NextM == Start \/ ProcessFile \/ Finish

SpecM == InitM /\ [][NextM]_vars

\* the loop is a for loop over a finite list: every pass and the return happen
FairSpecM == SpecM /\ WF_vars(NextM)

\* ------------------------------------------------------- persister: claims
\* the storage types that the claim derives from the values of a column
ValueType(vals) ==
    LET present == {vals[k] : k \in {l \in DOMAIN vals : ~IsNull(vals[l])}}
    IN IF \A c \in present : IsWhole(c) THEN "Integer"
       ELSE IF \A c \in present : c.t \in {"int", "float"} THEN "Float"
       ELSE IF \A c \in present : c.t = "ts" THEN "DateTime"
       ELSE IF \A c \in present : c.t = "bool" THEN "Boolean"
       ELSE "String"

FrameColumn(d, c) == [k \in DOMAIN d.rows |-> d.rows[k][c]]

\* the table of the drawn frame has just been created
CreatedFromFrame ==
    lastCall.fn = "create" /\ ~lastCall.raised /\ "t" \in DOMAIN tables

\* C5 as stated: the storage type of each column of a created table is
\* decided from the column's non-null values: integer if all are whole
\* numbers, else float if all are numeric, else timestamp if all are
\* date/times, else boolean if all are booleans, else string.  (Stated for
\* the columns that hold a value.)
C5_TypeFromValues ==
    CreatedFromFrame =>
        \A c \in DOMAIN pdf.dtypes :
            (\E k \in DOMAIN pdf.rows : ~IsNull(pdf.rows[k][c])) =>
                tables["t"].cols[c] = ValueType(FrameColumn(pdf, c))

\* C5 as amended: the storage type of each column of a created table is
\* decided from the column's dtype: integer for int64 and Int64, float for
\* float64, timestamp for datetime64, boolean for bool, string for anything
\* else; so a stored integer, float, timestamp or boolean type implies that
\* every non-null value is one, and a null can change the type (whole
\* numbers with a null, held as float64, are stored as float).
C5_TypeFromDtype ==
    CreatedFromFrame =>
        /\ DOMAIN tables["t"].cols = DOMAIN pdf.dtypes
        /\ \A c \in DOMAIN pdf.dtypes :
              LET ty == tables["t"].cols[c]
                  dtype == pdf.dtypes[c]
                  present == {v \in {pdf.rows[k][c] : k \in DOMAIN pdf.rows} :
                                 ~IsNull(v)}
              IN /\ ty = "Integer" <=> dtype \in {"int64", "Int64"}
                 /\ ty = "Float" <=> dtype = "float64"
                 /\ ty = "DateTime" <=> dtype = "datetime64"
                 /\ ty = "Boolean" <=> dtype = "bool"
                 /\ ty = "String" <=> dtype = "object"
                 /\ ty = "Integer" => \A v \in present : v.t = "int"
                 /\ ty = "Float" => \A v \in present : v.t = "float"
                 /\ ty = "DateTime" => \A v \in present : v.t = "ts"
                 /\ ty = "Boolean" => \A v \in present : v.t = "bool"

\* whole numbers and a null, held as float64, stored as Float
C5_Witness ==
    /\ CreatedFromFrame
    /\ pdf.dtypes["v"] = "float64"
    /\ pdf.rows = <<[v |-> FloatCell(50)], [v |-> Null]>>
    /\ tables["t"].cols["v"] = "Float"

\* C4: over any sequence of create_table_from_dataframe and
\* save_dataframe_to_db calls, the columns and storage types of a table that
\* exists never change; a table created by a call for its name has the
\* columns of that call's dataset; create_table_from_dataframe on a name that
\* exists raises nothing and changes nothing, whatever the dataset.
C4_SchemaFixedAtCreation ==
    [][/\ \A n \in DOMAIN tables :
             n \in DOMAIN tables' /\ tables'[n].cols = tables[n].cols
       /\ (lastCall'.fn = "create" /\ lastCall'.name \in DOMAIN tables) =>
             (~lastCall'.raised /\ tables' = tables /\ metadata' = metadata)
       /\ (/\ lastCall'.fn = "create"
           /\ lastCall'.name \notin DOMAIN tables
           /\ lastCall'.name \in DOMAIN tables') =>
             /\ DOMAIN tables'[lastCall'.name].cols = DOMAIN lastCall'.dtypes
             /\ \A c \in DOMAIN lastCall'.dtypes :
                   (tables'[lastCall'.name].cols[c] = "String")
                       <=> (lastCall'.dtypes[c] = "object")
      ]_vars

\* create_table_from_dataframe has just returned for a table that holds rows
\* and whose columns are not those of the dataset passed
C4_Witness ==
    /\ lastCall.fn = "create"
    /\ ~lastCall.raised
    /\ lastCall.name \in DOMAIN tables
    /\ tables[lastCall.name].nrows > 0
    /\ DOMAIN tables[lastCall.name].cols # DOMAIN lastCall.dtypes

\* ------------------------------------------------------------ main(): claims
Range(q) == {q[k] : k \in DOMAIN q}

Occurrences(q, x) == Cardinality({k \in DOMAIN q : q[k] = x})

\* C6: when the storage rejects the CREATE TABLE or the INSERT of a file, the
\* write was attempted once, the file is in processed_failed and not in
\* processed_successfully, and the run goes on to its end with every file
\* processed.
C6_RejectedWriteFailsOnlyItsFile ==
    /\ [](\A k \in DOMAIN log :
             log[k].rejected =>
                 /\ log[k].creates = 1
                 /\ log[k].writes = (IF log[k].outcome = "save_error" THEN 1 ELSE 0)
                 /\ log[k].file \in Range(processed_failed)
                 /\ log[k].file \notin Range(processed_successfully))
    /\ ((\E k \in DOMAIN log : log[k].rejected)
           ~> (pc = "done" /\ Len(log) = Len(files)))

\* the INSERT of the first file was rejected and the second file was loaded
C6_Witness ==
    /\ pc = "done"
    /\ Len(log) = 2
    /\ log[1].rejected /\ log[1].outcome = "save_error"
    /\ log[2].outcome = "success"
    /\ processed_failed = <<files[1]>>
    /\ processed_successfully = <<files[2]>>

\* C7: whatever happens to each file, the files are processed in order, each
\* processed file is in exactly one of the two lists, once; a file is in
\* processed_successfully only if its table exists, holds rows, and no write
\* of the file was rejected; and the run reaches its end with every file
\* processed.
C7_EveryFileInOneList ==
    /\ [](pc \in {"loop", "done"} =>
             /\ Len(log) = pos - 1
             /\ \A k \in DOMAIN log : log[k].file = files[k]
             /\ \A k \in DOMAIN files :
                   Occurrences(processed_successfully, files[k])
                       + Occurrences(processed_failed, files[k])
                     = (IF k < pos THEN 1 ELSE 0)
             /\ \A k \in DOMAIN log :
                   log[k].file \in Range(processed_successfully) =>
                       /\ ~log[k].rejected
                       /\ log[k].outcome = "success"
                       /\ log[k].table \in DOMAIN tables
                       /\ tables[log[k].table].nrows > 0)
    /\ <>(pc = "done" /\ Len(log) = Len(files))

\* a file that failed, then a file that was loaded
C7_Witness ==
    /\ pc = "done"
    /\ Len(log) = 2
    /\ log[1].outcome = "validate_error"
    /\ log[2].outcome = "success"
    /\ processed_failed = <<files[1]>>
    /\ processed_successfully = <<files[2]>>

\* C8: two distinct files are never loaded into the same table.
C8_OneTablePerFile ==
    \A k, l \in DOMAIN log :
        (k # l /\ log[k].outcome = "success" /\ log[l].outcome = "success") =>
            log[k].table # log[l].table

\* ------------------------------------------------- validator: order of stages
\* the pipeline with stages 2 and 3 swapped: deduplication, type coercion,
\* required-field null removal, post-coercion null removal
validate_swapped(d, required, types, keepNull) ==
    LET df_dedup == remove_duplicates(d)
        df_coerced == CoerceColumns(df_dedup, types, DOMAIN types, keepNull)
        df_required == DropRequiredNulls(df_coerced, required)
    IN DropCoercionNulls(df_required, types)

\* a required field of the frame is typed and holds a value that the
\* coercion has no result for
RequiredFieldCoercesToNull ==
    \E c \in required_fields \cap TypedColumns :
        \E j \in DOMAIN df : FailsCoercion(df[j][c], data_types[c])

\* no row is null in a required field of the frame before the coercion
NoRequiredNullInInput ==
    \A c \in required_fields \cap Columns :
        \A j \in DOMAIN df : ~IsNull(df[j][c])

\* C11 as stated: when a required field is also typed and holds a value that
\* coerces to null, the output of validate_and_clean differs from the output
\* of the pipeline with required-field null removal and coercion swapped.
C11_OrderChangesOutput ==
    (Validated /\ RequiredFieldCoercesToNull) =>
        out # validate_swapped(df, required_fields, data_types, strKeepsNull)

\* C11 as amended: in that case the two orders give the same output whenever
\* no row is null in a required field before the coercion; the value that
\* coerces to null is then dropped, or kept, by both.
C11_OrderSameWithoutRequiredNulls ==
    (Validated /\ RequiredFieldCoercesToNull /\ NoRequiredNullInInput) =>
        out = validate_swapped(df, required_fields, data_types, strKeepsNull)

\* age is required and an integer; the row with "x" is gone, the row with
\* "5" is kept, in the code's order and in the swapped one
C11_Witness ==
    /\ op = "validate"
    /\ required_fields = {"age"}
    /\ "age" \in DOMAIN data_types
    /\ data_types["age"] = "int"
    /\ Len(df) = 2
    /\ df[1].age = StrCell("x")
    /\ df[2].age = StrCell("5")
    /\ Len(out) = 1
    /\ out[1].idx = 2
    /\ out = validate_swapped(df, required_fields, data_types, strKeepsNull)

\* reachability probe, which TLC refutes: the two orders do differ on some
\* frame (a row null in a required field that is typed str)
C11_OrdersNeverDiffer ==
    ~(/\ Validated
      /\ RequiredFieldCoercesToNull
      /\ out # validate_swapped(df, required_fields, data_types, strKeepsNull))

\* ------------------------------------------- persister: the shared MetaData
\* C12: over any sequence of create_table_from_dataframe calls on one
\* persister, rejected creations included, a call for a table name creates or
\* alters no other table, and a call for a name that the storage still lacks
\* does not fail because of the definition that an earlier rejected call left
\* in the MetaData.
C12_CreateTouchesOnlyItsTable ==
    [][lastCall'.fn = "create" =>
          /\ \A n \in DOMAIN tables' \ {lastCall'.name} :
                n \in DOMAIN tables /\ tables'[n] = tables[n]
          /\ ~(/\ lastCall'.raised
               /\ lastCall'.name \notin DOMAIN tables
               /\ lastCall'.name \in DOMAIN metadata)
      ]_vars

====
